---- MODULE Spec2Model ----
(***************************************************************************)
(* Model of EPSSCacheDB (epss_cache_db.py): a SQLite-backed cache of EPSS  *)
(* scores and CISA KEV entries, an API call log and a metadata table.      *)
(*                                                                         *)
(* Time is counted in ticks of the local wall clock; TicksPerDay ticks     *)
(* make one day.  Timestamps are stored as text, as the code stores them:  *)
(* datetime.isoformat() gives <<date, "T", time-of-day>> and SQLite's      *)
(* datetime() gives <<date, " ", time-of-day>>; text is compared           *)
(* lexicographically, as SQLite compares TEXT columns.                     *)
(***************************************************************************)
EXTENDS Integers, Sequences, FiniteSets, TLC

\* ---------------------------------------------------------------- bounds
MaxTime == 3
MaxAge == 1
MaxLog == 2
MaxRows == 2
MaxBatch == 1

TicksPerDay == 2

CveIds == {"CVE-1", "CVE-2"}
\* the concurrent callers
Callers == {1, 2}
Ages == 0..MaxAge
\* a second datetime.now() inside one call may read a later clock value
ClockSteps == {0, 1}
\* UTC offset of the host in ticks: SQLite's 'now' is UTC, datetime.now() local
UtcOffsets == {-1, 0, 1}

\* arguments of cache_epss_score (score, percentile, model_version, score_date)
EpssArgs ==
  { [epss_score |-> 1, percentile |-> 1, model_version |-> "v1", score_date |-> "d1"],
    [epss_score |-> 2, percentile |-> 2, model_version |-> "", score_date |-> ""] }

\* arguments of cache_cisa_kev
KevArgs ==
  { [vendor_project |-> "V1", product |-> "P1", vulnerability_name |-> "N1",
     date_added |-> "a1", short_description |-> "s1", required_action |-> "r1",
     due_date |-> "u1"] }

\* arguments of log_api_call
CallArgs ==
  { [api_type |-> "EPSS", endpoint |-> "epss-url", parameters |-> "cve",
     status_code |-> 200, response_time |-> 1, cached |-> FALSE],
    [api_type |-> "KEV", endpoint |-> "kev-url", parameters |-> "none",
     status_code |-> 500, response_time |-> 0, cached |-> TRUE] }

\* now: the local wall clock; epss_cache, cisa_kev_cache, api_call_log,
\* metadata: the four tables, each a set of rows; sqlite_sequence: the largest
\* rowid AUTOINCREMENT has handed out; ret: the last call and its return value;
\* History: calls is the number of log_api_call invocations so far;
\* epss_put[id] holds the arguments and clock value of the latest
\* cache_epss_score(id, ...) whose entry no sweep has removed since.
\* callers: the position and local values of each concurrent caller (its own
\* EPSSCacheDB instance on the shared store); lookup: the state of the batch
\* request the orchestrator is serving.
VARIABLES now, epss_cache, cisa_kev_cache, api_call_log, sqlite_sequence,
          metadata, ret, calls, epss_put, callers, lookup, conn, block

vars == <<now, epss_cache, cisa_kev_cache, api_call_log, sqlite_sequence,
          metadata, ret, calls, epss_put, callers, lookup, conn, block>>

\* ------------------------------------------------------- text timestamps
\* datetime.isoformat(): "YYYY-MM-DDTHH:MM:SS"
IsoFormat(t) == <<t \div TicksPerDay, "T", t % TicksPerDay>>

\* datetime.fromisoformat()
FromIsoFormat(s) == s[1] * TicksPerDay + s[3]

\* SQLite datetime(): "YYYY-MM-DD HH:MM:SS"
SqliteDatetime(t) == <<t \div TicksPerDay, " ", t % TicksPerDay>>

CharCode(c) == IF c = " " THEN 32 ELSE 84

\* SQLite TEXT comparison (memcmp) of two timestamps
TextLess(a, b) ==
  \/ a[1] < b[1]
  \/ a[1] = b[1] /\ CharCode(a[2]) < CharCode(b[2])
  \/ a[1] = b[1] /\ a[2] = b[2] /\ a[3] < b[3]

\* timedelta(days=n)
Days(n) == n * TicksPerDay

\* ------------------------------------------------------------ SQL helpers
\* rows of a table with the given primary key
RowsOf(table, id) == {r \in table : r.cve_id = id}

\* variant: INSERT OR IGNORE, an existing row with the same primary key stays
InsertOrIgnoreEpss(table, row) ==
  IF RowsOf(table, row.cve_id) = {} THEN table \cup {row} ELSE table

\* variant: an upsert that updates the existing row but keeps its cached_at
InsertKeepingCachedAt(table, row) ==
  (table \ RowsOf(table, row.cve_id)) \cup
    (IF RowsOf(table, row.cve_id) = {} THEN {row}
     ELSE {[row EXCEPT !.cached_at = r.cached_at] : r \in RowsOf(table, row.cve_id)})

\* INSERT OR REPLACE INTO epss_cache: the row with the same primary key goes
InsertOrReplaceEpss(table, row) ==
  (table \ RowsOf(table, row.cve_id)) \cup {row}

\* variant: a plain INSERT into a table without the primary key
InsertKev(table, row) == table \cup {row}

\* INSERT OR REPLACE INTO cisa_kev_cache
InsertOrReplaceKev(table, row) ==
  (table \ RowsOf(table, row.cve_id)) \cup {row}

\* variant: the update also refreshes cached_at
UpdateAccessedAndCached(table, id, ts) ==
  {IF r.cve_id = id THEN [r EXCEPT !.last_accessed = ts, !.cached_at = ts] ELSE r :
     r \in table}

\* variant: the statement names the cached_at column
UpdateCachedAt(table, id, ts) ==
  {IF r.cve_id = id THEN [r EXCEPT !.cached_at = ts] ELSE r : r \in table}

\* UPDATE ... SET last_accessed = ? WHERE cve_id = ?
UpdateLastAccessed(table, id, ts) ==
  {IF r.cve_id = id THEN [r EXCEPT !.last_accessed = ts] ELSE r : r \in table}

\* json.dumps(parameters)
JsonDumps(p) == <<"json", p>>

\* a Python bool bound to a BOOLEAN column is stored as 1 or 0
BoolToInt(b) == IF b THEN 1 ELSE 0

StoreRows == Cardinality(epss_cache) + Cardinality(cisa_kev_cache)
               + Cardinality(api_call_log)

\* the rows the store may hold: a batch request in progress may add the
\* entries and the audit rows of its batches
RowLimit == IF lookup.phase = "idle" THEN MaxRows ELSE MaxRows + MaxLog

\* a caller between two calls
IdleCaller == [pc |-> "idle"]

\* no batch request is being served
NoLookup == [phase |-> "idle"]

\* outside any with-block, no exception pending
NoBlock == [pc |-> "before", exc |-> "none", propagated |-> "none"]

\* no call has a result pending
Idle == [op |-> "idle", at |-> 0, val |-> {}]

\* what the last call was, the clock value it first read and the value it
\* returned ({} for None); for a cache_* call, val holds the data columns of
\* the row its REPLACE displaced
Returned(op, at, val) == [op |-> op, at |-> at, val |-> val]

\* ------------------------------------------------------------------ Init
\* state after EPSSCacheDB(): empty tables, metadata holds db_version and
\* created_at
Init ==
  /\ now = 0
  /\ epss_cache = {}
  /\ cisa_kev_cache = {}
  /\ api_call_log = {}
  /\ sqlite_sequence = 0
  /\ metadata = { [key |-> "db_version", value |-> "1.0", updated_at |-> IsoFormat(0)],
                  [key |-> "created_at", value |-> IsoFormat(0), updated_at |-> IsoFormat(0)] }
  /\ ret = Idle
  /\ calls = 0
  /\ epss_put = [id \in CveIds |-> {}]
  /\ callers = [p \in Callers |-> IdleCaller]
  /\ lookup = NoLookup
  /\ conn = "open"
  /\ block = NoBlock

\* the wall clock advances between calls
Tick ==
  /\ ret.op = "idle"
  /\ UNCHANGED <<callers, lookup, conn, block>>
  /\ now < MaxTime
  /\ now' = now + 1
  /\ UNCHANGED <<epss_cache, cisa_kev_cache, api_call_log, sqlite_sequence,
                 metadata, ret, calls, epss_put>>

\* the caller takes the value the call returned and goes on to its next call
Return ==
  /\ ret.op # "idle"
  /\ UNCHANGED <<callers, lookup, conn, block>>
  /\ ret' = Idle
  /\ UNCHANGED <<now, epss_cache, cisa_kev_cache, api_call_log, sqlite_sequence,
                 metadata, calls, epss_put>>

\* ------------------------------------------------------------------ EPSS
\* the four data columns of an epss_cache row
EpssFields(r) ==
  [epss_score |-> r.epss_score, percentile |-> r.percentile,
   model_version |-> r.model_version, score_date |-> r.score_date]

cache_epss_score(id, d) ==
  /\ ret.op = "idle"
  /\ UNCHANGED <<callers, lookup, conn, block>>
  /\ (RowsOf(epss_cache, id) = {}) => StoreRows < RowLimit
  /\ epss_cache' = InsertOrReplaceEpss(epss_cache,
        [cve_id |-> id, epss_score |-> d.epss_score, percentile |-> d.percentile,
         model_version |-> d.model_version, score_date |-> d.score_date,
         cached_at |-> IsoFormat(now), last_accessed |-> IsoFormat(now)])
  /\ ret' = Returned("cache_epss_score", now,
                     {EpssFields(r) : r \in RowsOf(epss_cache, id)})
  /\ epss_put' = [epss_put EXCEPT ![id] = {[args |-> d, at |-> now]}]
  /\ UNCHANGED <<now, cisa_kev_cache, api_call_log, sqlite_sequence, metadata, calls>>

\* variant: an entry exactly max_age_days old counts as expired
EpssExpiredAtBoundary(row, t, max_age_days) ==
  t - FromIsoFormat(row.cached_at) >= Days(max_age_days)

\* the expiry test of get_epss_score
EpssExpired(row, t, max_age_days) ==
  t - FromIsoFormat(row.cached_at) > Days(max_age_days)

EpssResult(row) ==
  [epss |-> row.epss_score, percentile |-> row.percentile,
   model_version |-> row.model_version, score_date |-> row.score_date]

get_epss_score(id, max_age_days) ==
  LET rows == RowsOf(epss_cache, id) IN
  /\ ret.op = "idle"
  /\ UNCHANGED <<callers, lookup, conn, block>>
  /\ IF rows = {} \/ (\A r \in rows : EpssExpired(r, now, max_age_days))
     THEN /\ ret' = Returned("get_epss_score", now, {})
          /\ UNCHANGED <<now, epss_cache, cisa_kev_cache, api_call_log,
                         sqlite_sequence, metadata, calls, epss_put>>
     ELSE \E step \in ClockSteps, r \in rows :
          /\ now + step <= MaxTime
          /\ ~EpssExpired(r, now, max_age_days)
          /\ now' = now + step
          /\ epss_cache' = UpdateLastAccessed(epss_cache, id, IsoFormat(now'))
          /\ ret' = Returned("get_epss_score", now, {EpssResult(r)})
          /\ UNCHANGED <<cisa_kev_cache, api_call_log, sqlite_sequence,
                         metadata, calls, epss_put>>

\* ------------------------------------------------------------------- KEV
\* the seven data columns of a cisa_kev_cache row
KevFields(r) ==
  [vendor_project |-> r.vendor_project, product |-> r.product,
   vulnerability_name |-> r.vulnerability_name, date_added |-> r.date_added,
   short_description |-> r.short_description,
   required_action |-> r.required_action, due_date |-> r.due_date]

cache_cisa_kev(id, d) ==
  /\ ret.op = "idle"
  /\ UNCHANGED <<callers, lookup, conn, block>>
  /\ (RowsOf(cisa_kev_cache, id) = {}) => StoreRows < RowLimit
  /\ cisa_kev_cache' = InsertOrReplaceKev(cisa_kev_cache,
        [cve_id |-> id, vendor_project |-> d.vendor_project, product |-> d.product,
         vulnerability_name |-> d.vulnerability_name, date_added |-> d.date_added,
         short_description |-> d.short_description,
         required_action |-> d.required_action, due_date |-> d.due_date,
         cached_at |-> IsoFormat(now), last_accessed |-> IsoFormat(now)])
  /\ ret' = Returned("cache_cisa_kev", now,
                     {KevFields(r) : r \in RowsOf(cisa_kev_cache, id)})
  /\ UNCHANGED <<now, epss_cache, api_call_log, sqlite_sequence, metadata, calls, epss_put>>

\* variant: the age is taken from last_accessed
KevExpiredByAccess(row, t, max_age_days) ==
  t - FromIsoFormat(row.last_accessed) > Days(max_age_days)

\* the expiry test of is_in_cisa_kev
KevExpired(row, t, max_age_days) ==
  t - FromIsoFormat(row.cached_at) > Days(max_age_days)

is_in_cisa_kev(id, max_age_days) ==
  LET rows == RowsOf(cisa_kev_cache, id) IN
  /\ ret.op = "idle"
  /\ UNCHANGED <<callers, lookup, conn, block>>
  /\ IF rows = {} \/ (\A r \in rows : KevExpired(r, now, max_age_days))
     THEN /\ ret' = Returned("is_in_cisa_kev", now, FALSE)
          /\ UNCHANGED <<now, epss_cache, cisa_kev_cache, api_call_log,
                         sqlite_sequence, metadata, calls, epss_put>>
     ELSE \E step \in ClockSteps :
          /\ now + step <= MaxTime
          /\ now' = now + step
          /\ cisa_kev_cache' = UpdateLastAccessed(cisa_kev_cache, id, IsoFormat(now'))
          /\ ret' = Returned("is_in_cisa_kev", now, TRUE)
          /\ UNCHANGED <<epss_cache, api_call_log, sqlite_sequence, metadata, calls, epss_put>>

\* SELECT cve_id FROM cisa_kev_cache WHERE cached_at > cutoff
KevCachedAfter(table, cutoff) ==
  {r.cve_id : r \in {x \in table : TextLess(cutoff, x.cached_at)}}

get_all_cisa_kev_cves(max_age_days) ==
  /\ ret.op = "idle"
  /\ UNCHANGED <<callers, lookup, conn, block>>
  /\ ret' = Returned("get_all_cisa_kev_cves", now,
                     KevCachedAfter(cisa_kev_cache, IsoFormat(now - Days(max_age_days))))
  /\ UNCHANGED <<now, epss_cache, cisa_kev_cache, api_call_log, sqlite_sequence,
                 metadata, calls, epss_put>>

\* ------------------------------------------------------------- API call log
\* variant: the call's row takes the place of the rows of the same api_type
InsertOrReplaceCall(table, row) ==
  {r \in table : r.api_type # row.api_type} \cup {row}

\* INSERT INTO api_call_log
InsertCall(table, row) == table \cup {row}

\* log_api_call: AUTOINCREMENT gives the row the next rowid never used before
log_api_call(c) ==
  /\ ret.op = "idle"
  /\ UNCHANGED <<callers, lookup, conn, block>>
  /\ Cardinality(api_call_log) < MaxLog
  /\ StoreRows < RowLimit
  /\ sqlite_sequence' = sqlite_sequence + 1
  /\ api_call_log' = InsertCall(api_call_log,
         [id |-> sqlite_sequence', api_type |-> c.api_type, endpoint |-> c.endpoint,
          parameters |-> JsonDumps(c.parameters), status_code |-> c.status_code,
          response_time |-> c.response_time, cached |-> BoolToInt(c.cached),
          timestamp |-> IsoFormat(now)])
  /\ calls' = calls + 1
  /\ ret' = Returned("log_api_call", now, {})
  /\ UNCHANGED <<now, epss_cache, cisa_kev_cache, metadata, epss_put>>

\* WHERE timestamp > datetime('now', '-24 hours'), utc being SQLite's 'now'
RecentCalls(log, utc) ==
  {r \in log : TextLess(SqliteDatetime(utc - Days(1)), r.timestamp)}

\* SELECT api_type, COUNT(*) ... GROUP BY api_type, as a dict
CountByType(rows) ==
  [t \in {r.api_type : r \in rows} |-> Cardinality({r \in rows : r.api_type = t})]

\* variant: reading the statistics counts as an access of every cached entry
get_cache_stats_touching(offset) ==
  /\ ret.op = "idle"
  /\ UNCHANGED <<callers, lookup, conn, block>>
  /\ ret' = Returned("get_cache_stats", now,
        [epss_cached_entries |-> Cardinality(epss_cache),
         cisa_kev_cached_entries |-> Cardinality(cisa_kev_cache),
         total_api_calls |-> Cardinality(api_call_log),
         cached_api_calls |-> Cardinality({r \in api_call_log : r.cached = 1}),
         recent_calls_by_type |-> CountByType(RecentCalls(api_call_log, now - offset))])
  /\ epss_cache' = {[r EXCEPT !.last_accessed = IsoFormat(now)] : r \in epss_cache}
  /\ cisa_kev_cache' =
       {[r EXCEPT !.last_accessed = IsoFormat(now)] : r \in cisa_kev_cache}
  /\ UNCHANGED <<now, api_call_log, sqlite_sequence, metadata, calls, epss_put>>

\* variant: the KEV count leaves out the entries older than the default day
get_cache_stats_fresh_only(offset) ==
  /\ ret.op = "idle"
  /\ UNCHANGED <<callers, lookup, conn, block>>
  /\ ret' = Returned("get_cache_stats", now,
        [epss_cached_entries |-> Cardinality(epss_cache),
         cisa_kev_cached_entries |->
           Cardinality(KevCachedAfter(cisa_kev_cache, IsoFormat(now - Days(1)))),
         total_api_calls |-> Cardinality(api_call_log),
         cached_api_calls |-> Cardinality({r \in api_call_log : r.cached = 1}),
         recent_calls_by_type |-> CountByType(RecentCalls(api_call_log, now - offset))])
  /\ UNCHANGED <<now, epss_cache, cisa_kev_cache, api_call_log, sqlite_sequence,
                 metadata, calls, epss_put>>

get_cache_stats(offset) ==
  /\ ret.op = "idle"
  /\ UNCHANGED <<callers, lookup, conn, block>>
  /\ ret' = Returned("get_cache_stats", now,
        [epss_cached_entries |-> Cardinality(epss_cache),
         cisa_kev_cached_entries |-> Cardinality(cisa_kev_cache),
         total_api_calls |-> Cardinality(api_call_log),
         cached_api_calls |-> Cardinality({r \in api_call_log : r.cached = 1}),
         recent_calls_by_type |-> CountByType(RecentCalls(api_call_log, now - offset))])
  /\ UNCHANGED <<now, epss_cache, cisa_kev_cache, api_call_log, sqlite_sequence,
                 metadata, calls, epss_put>>

\* -------------------------------------------------------------------- sweep
\* variant: WHERE last_accessed < cutoff
AccessedBefore(table, cutoff) == {r \in table : TextLess(r.last_accessed, cutoff)}

\* variant: WHERE cached_at <= cutoff
CachedBeforeOrAt(table, cutoff) ==
  {r \in table : TextLess(r.cached_at, cutoff) \/ r.cached_at = cutoff}

\* DELETE FROM ... WHERE cached_at < cutoff: the rows the statement removes
CachedBefore(table, cutoff) == {r \in table : TextLess(r.cached_at, cutoff)}

\* variant: the KEV cutoff is computed from epss_max_age_days too
clear_expired_cache_one_age(epss_max_age_days, kev_max_age_days) ==
  /\ ret.op = "idle"
  /\ UNCHANGED <<callers, lookup, conn, block>>
  /\ \E step \in ClockSteps :
       LET epss_cutoff == IsoFormat(now - Days(epss_max_age_days))
           kev_cutoff == IsoFormat((now + step) - Days(epss_max_age_days))
           epss_gone == CachedBefore(epss_cache, epss_cutoff)
           kev_gone == CachedBefore(cisa_kev_cache, kev_cutoff)
       IN /\ now + step <= MaxTime
          /\ now' = now + step
          /\ epss_cache' = epss_cache \ epss_gone
          /\ cisa_kev_cache' = cisa_kev_cache \ kev_gone
          /\ ret' = Returned("clear_expired_cache", now,
                             [epss_deleted |-> Cardinality(epss_gone),
                              kev_deleted |-> Cardinality(kev_gone)])
          /\ epss_put' = [id \in CveIds |->
                IF id \in {r.cve_id : r \in epss_gone} THEN {} ELSE epss_put[id]]
          /\ UNCHANGED <<api_call_log, sqlite_sequence, metadata, calls>>

clear_expired_cache(epss_max_age_days, kev_max_age_days) ==
  /\ ret.op = "idle"
  /\ UNCHANGED <<callers, lookup, conn, block>>
  /\ \E step \in ClockSteps :
       LET epss_cutoff == IsoFormat(now - Days(epss_max_age_days))
           kev_cutoff == IsoFormat((now + step) - Days(kev_max_age_days))
           epss_gone == CachedBefore(epss_cache, epss_cutoff)
           kev_gone == CachedBefore(cisa_kev_cache, kev_cutoff)
       IN /\ now + step <= MaxTime
          /\ now' = now + step
          /\ epss_cache' = epss_cache \ epss_gone
          /\ cisa_kev_cache' = cisa_kev_cache \ kev_gone
          /\ ret' = Returned("clear_expired_cache", now,
                             [epss_deleted |-> Cardinality(epss_gone),
                              kev_deleted |-> Cardinality(kev_gone)])
          /\ epss_put' = [id \in CveIds |->
                IF id \in {r.cve_id : r \in epss_gone} THEN {} ELSE epss_put[id]]
          /\ UNCHANGED <<api_call_log, sqlite_sequence, metadata, calls>>

\* one caller, one call at a time, no batch request
Next ==
  \/ Tick
  \/ Return
  \/ \E id \in CveIds, d \in EpssArgs : cache_epss_score(id, d)
  \/ \E id \in CveIds, a \in Ages : get_epss_score(id, a)
  \/ \E id \in CveIds, d \in KevArgs : cache_cisa_kev(id, d)
  \/ \E id \in CveIds, a \in Ages : is_in_cisa_kev(id, a)
  \/ \E a \in Ages : get_all_cisa_kev_cves(a)
  \/ \E c \in CallArgs : log_api_call(c)
  \/ \E offset \in UtcOffsets : get_cache_stats(offset)
  \/ \E a \in Ages, b \in Ages : clear_expired_cache(a, b)

Spec == Init /\ [][Next]_vars

\* ------------------------------------------------- concurrent callers
\* Two EPSSCacheDB instances on one database file.  A call is a sequence of
\* steps: each datetime.now() and each statement (with its commit) is a step
\* of its own, and the steps of the two callers interleave.  A caller keeps
\* its position, the identifier, the call's data (for a read: the cached_at of
\* the row fetched) and a number (the clock reading, or max_age_days).
Caller(pc, id, args, t) == [pc |-> pc, id |-> id, args |-> args, t |-> t]

EpssRow(id, d, ts) ==
  [cve_id |-> id, epss_score |-> d.epss_score, percentile |-> d.percentile,
   model_version |-> d.model_version, score_date |-> d.score_date,
   cached_at |-> ts, last_accessed |-> ts]

KevRow(id, d, ts) ==
  [cve_id |-> id, vendor_project |-> d.vendor_project, product |-> d.product,
   vulnerability_name |-> d.vulnerability_name, date_added |-> d.date_added,
   short_description |-> d.short_description,
   required_action |-> d.required_action, due_date |-> d.due_date,
   cached_at |-> ts, last_accessed |-> ts]

\* cache_epss_score, line 97: now = datetime.now().isoformat()
cache_epss_score_now(p, id, d) ==
  /\ callers[p].pc = "idle"
  /\ callers' = [callers EXCEPT ![p] = Caller("cache_epss_score", id, d, now)]
  /\ UNCHANGED <<now, epss_cache, cisa_kev_cache, api_call_log, sqlite_sequence,
                 metadata, ret, calls, epss_put, lookup, conn, block>>

\* cache_epss_score, lines 98-103: INSERT OR REPLACE and commit
cache_epss_score_execute(p) ==
  LET c == callers[p] IN
  /\ c.pc = "cache_epss_score"
  /\ (RowsOf(epss_cache, c.id) = {}) => StoreRows < MaxRows
  /\ epss_cache' = InsertOrReplaceEpss(epss_cache,
                                       EpssRow(c.id, c.args, IsoFormat(c.t)))
  /\ callers' = [callers EXCEPT ![p] = IdleCaller]
  /\ UNCHANGED <<now, cisa_kev_cache, api_call_log, sqlite_sequence, metadata,
                 ret, calls, epss_put, lookup, conn, block>>

\* get_epss_score, lines 107-115: SELECT and fetchone; None without a row
get_epss_score_select(p, id, max_age_days) ==
  /\ callers[p].pc = "idle"
  /\ \E r \in RowsOf(epss_cache, id) :
       callers' = [callers EXCEPT ![p] =
                     Caller("get_epss_score_fetched", id, r.cached_at, max_age_days)]
  /\ UNCHANGED <<now, epss_cache, cisa_kev_cache, api_call_log, sqlite_sequence,
                 metadata, ret, calls, epss_put, lookup, conn, block>>

\* get_epss_score, lines 118-120: the expiry test on the row fetched; None
\* when expired
get_epss_score_expiry(p) ==
  LET c == callers[p] IN
  /\ c.pc = "get_epss_score_fetched"
  /\ callers' = [callers EXCEPT ![p] =
                   IF EpssExpired([cached_at |-> c.args], now, c.t) THEN IdleCaller
                   ELSE Caller("get_epss_score_fresh", c.id, c.args, c.t)]
  /\ UNCHANGED <<now, epss_cache, cisa_kev_cache, api_call_log, sqlite_sequence,
                 metadata, ret, calls, epss_put, lookup, conn, block>>

\* get_epss_score, line 126: datetime.now().isoformat(), the UPDATE's argument
get_epss_score_now(p) ==
  LET c == callers[p] IN
  /\ c.pc = "get_epss_score_fresh"
  /\ callers' = [callers EXCEPT ![p] =
                   Caller("get_epss_score_update", c.id, c.args, now)]
  /\ UNCHANGED <<now, epss_cache, cisa_kev_cache, api_call_log, sqlite_sequence,
                 metadata, ret, calls, epss_put, lookup, conn, block>>

\* get_epss_score, lines 122-128: UPDATE and commit, then the row is returned
get_epss_score_update(p) ==
  LET c == callers[p] IN
  /\ c.pc = "get_epss_score_update"
  /\ epss_cache' = UpdateLastAccessed(epss_cache, c.id, IsoFormat(c.t))
  /\ callers' = [callers EXCEPT ![p] = IdleCaller]
  /\ UNCHANGED <<now, cisa_kev_cache, api_call_log, sqlite_sequence, metadata,
                 ret, calls, epss_put, lookup, conn, block>>

\* cache_cisa_kev, line 141: now = datetime.now().isoformat()
cache_cisa_kev_now(p, id, d) ==
  /\ callers[p].pc = "idle"
  /\ callers' = [callers EXCEPT ![p] = Caller("cache_cisa_kev", id, d, now)]
  /\ UNCHANGED <<now, epss_cache, cisa_kev_cache, api_call_log, sqlite_sequence,
                 metadata, ret, calls, epss_put, lookup, conn, block>>

\* cache_cisa_kev, lines 142-149: INSERT OR REPLACE and commit
cache_cisa_kev_execute(p) ==
  LET c == callers[p] IN
  /\ c.pc = "cache_cisa_kev"
  /\ (RowsOf(cisa_kev_cache, c.id) = {}) => StoreRows < MaxRows
  /\ cisa_kev_cache' = InsertOrReplaceKev(cisa_kev_cache,
                                          KevRow(c.id, c.args, IsoFormat(c.t)))
  /\ callers' = [callers EXCEPT ![p] = IdleCaller]
  /\ UNCHANGED <<now, epss_cache, api_call_log, sqlite_sequence, metadata,
                 ret, calls, epss_put, lookup, conn, block>>

\* is_in_cisa_kev, lines 153-159: SELECT and fetchone; False without a row
is_in_cisa_kev_select(p, id, max_age_days) ==
  /\ callers[p].pc = "idle"
  /\ \E r \in RowsOf(cisa_kev_cache, id) :
       callers' = [callers EXCEPT ![p] =
                     Caller("is_in_cisa_kev_fetched", id, r.cached_at, max_age_days)]
  /\ UNCHANGED <<now, epss_cache, cisa_kev_cache, api_call_log, sqlite_sequence,
                 metadata, ret, calls, epss_put, lookup, conn, block>>

\* is_in_cisa_kev, lines 162-165: the expiry test; False when expired
is_in_cisa_kev_expiry(p) ==
  LET c == callers[p] IN
  /\ c.pc = "is_in_cisa_kev_fetched"
  /\ callers' = [callers EXCEPT ![p] =
                   IF KevExpired([cached_at |-> c.args], now, c.t) THEN IdleCaller
                   ELSE Caller("is_in_cisa_kev_fresh", c.id, c.args, c.t)]
  /\ UNCHANGED <<now, epss_cache, cisa_kev_cache, api_call_log, sqlite_sequence,
                 metadata, ret, calls, epss_put, lookup, conn, block>>

\* is_in_cisa_kev, line 172: datetime.now().isoformat(), the UPDATE's argument
is_in_cisa_kev_now(p) ==
  LET c == callers[p] IN
  /\ c.pc = "is_in_cisa_kev_fresh"
  /\ callers' = [callers EXCEPT ![p] =
                   Caller("is_in_cisa_kev_update", c.id, c.args, now)]
  /\ UNCHANGED <<now, epss_cache, cisa_kev_cache, api_call_log, sqlite_sequence,
                 metadata, ret, calls, epss_put, lookup, conn, block>>

\* is_in_cisa_kev, lines 168-175: UPDATE and commit, then True is returned
is_in_cisa_kev_update(p) ==
  LET c == callers[p] IN
  /\ c.pc = "is_in_cisa_kev_update"
  /\ cisa_kev_cache' = UpdateLastAccessed(cisa_kev_cache, c.id, IsoFormat(c.t))
  /\ callers' = [callers EXCEPT ![p] = IdleCaller]
  /\ UNCHANGED <<now, epss_cache, api_call_log, sqlite_sequence, metadata,
                 ret, calls, epss_put, lookup, conn, block>>

\* the identifiers the concurrent callers work on
SharedIds == {"CVE-1"}

ConcurrentNext ==
  \/ Tick
  \/ \E p \in Callers, id \in SharedIds, d \in EpssArgs : cache_epss_score_now(p, id, d)
  \/ \E p \in Callers : cache_epss_score_execute(p)
  \/ \E p \in Callers, id \in SharedIds, a \in Ages : get_epss_score_select(p, id, a)
  \/ \E p \in Callers : get_epss_score_expiry(p)
  \/ \E p \in Callers : get_epss_score_now(p)
  \/ \E p \in Callers : get_epss_score_update(p)
  \/ \E p \in Callers, id \in SharedIds, d \in KevArgs : cache_cisa_kev_now(p, id, d)
  \/ \E p \in Callers : cache_cisa_kev_execute(p)
  \/ \E p \in Callers, id \in SharedIds, a \in Ages : is_in_cisa_kev_select(p, id, a)
  \/ \E p \in Callers : is_in_cisa_kev_expiry(p)
  \/ \E p \in Callers : is_in_cisa_kev_now(p)
  \/ \E p \in Callers : is_in_cisa_kev_update(p)

ConcurrentSpec == Init /\ [][ConcurrentNext]_vars

\* ---------------------------------------------------------- store failures
\* A statement or a commit raises sqlite3.Error.  No method catches it or
\* rolls back, so the call ends with the exception and the statements it
\* executed before stay in the connection's open transaction: later calls on
\* the instance read them, and the next commit writes them.  The tables are
\* the store as the instance reads it.  A failed commit leaves the
\* transaction open or rolls it back, as SQLite decides by the error.
FailurePoints == {"first statement", "second statement", "commit kept",
                  "commit rolled back"}

\* the exception the call ends with
Raised(op, at) == [op |-> "sqlite3.Error", at |-> at, val |-> op]

\* get_epss_score with a failure in the SELECT, in the UPDATE or in the commit
get_epss_score_raises(id, max_age_days) ==
  LET rows == RowsOf(epss_cache, id)
      hit == \E r \in rows : ~EpssExpired(r, now, max_age_days)
  IN
  /\ ret.op = "idle"
  /\ UNCHANGED <<callers, lookup, conn, block>>
  /\ \E point \in FailurePoints, step \in ClockSteps :
       /\ point # "first statement" => hit
       /\ now + step <= MaxTime
       /\ now' = IF point = "first statement" THEN now ELSE now + step
       /\ epss_cache' = IF point = "commit kept"
                        THEN UpdateLastAccessed(epss_cache, id, IsoFormat(now'))
                        ELSE epss_cache
       /\ ret' = Raised("get_epss_score", now)
  /\ UNCHANGED <<cisa_kev_cache, api_call_log, sqlite_sequence, metadata, calls,
                 epss_put>>

\* clear_expired_cache with a failure in the first DELETE, in the second
\* DELETE or in the commit
clear_expired_cache_raises(epss_max_age_days, kev_max_age_days) ==
  /\ ret.op = "idle"
  /\ UNCHANGED <<callers, lookup, conn, block>>
  /\ \E point \in FailurePoints, step \in ClockSteps :
       LET epss_cutoff == IsoFormat(now - Days(epss_max_age_days))
           kev_cutoff == IsoFormat((now + step) - Days(kev_max_age_days))
           epss_gone == IF point \in {"second statement", "commit kept"}
                        THEN CachedBefore(epss_cache, epss_cutoff) ELSE {}
           kev_gone == IF point = "commit kept"
                       THEN CachedBefore(cisa_kev_cache, kev_cutoff) ELSE {}
       IN /\ now + step <= MaxTime
          /\ now' = now + step
          /\ epss_cache' = epss_cache \ epss_gone
          /\ cisa_kev_cache' = cisa_kev_cache \ kev_gone
          /\ ret' = Raised("clear_expired_cache", now)
          /\ epss_put' = [id \in CveIds |->
                IF id \in {r.cve_id : r \in epss_gone} THEN {} ELSE epss_put[id]]
  /\ UNCHANGED <<api_call_log, sqlite_sequence, metadata, calls>>

\* one caller whose store may fail in get_epss_score and clear_expired_cache
FaultNext ==
  \/ Tick
  \/ Return
  \/ \E id \in CveIds, d \in EpssArgs : cache_epss_score(id, d)
  \/ \E id \in CveIds, d \in KevArgs : cache_cisa_kev(id, d)
  \/ \E id \in CveIds, a \in Ages : get_epss_score(id, a)
  \/ \E id \in CveIds, a \in Ages : is_in_cisa_kev(id, a)
  \/ \E a \in Ages, b \in Ages : clear_expired_cache(a, b)
  \/ \E id \in CveIds, a \in Ages : get_epss_score_raises(id, a)
  \/ \E a \in Ages, b \in Ages : clear_expired_cache_raises(a, b)

FaultSpec == Init /\ [][FaultNext]_vars

\* ------------------------------------------------------ lookup orchestrator
\* lookup_epss(ids, max_age): the batch request of the orchestrator, one step
\* per cache call, remote call and result taken.  The orchestrator calls the
\* cache through get_epss_score, log_api_call and cache_epss_score.  Earlier
\* runs have filled the cache and time has passed; then one request is served.

\* the requests: lists of identifiers, long enough to name every identifier
\* and one of them twice
Requests == UNION {[1..n -> CveIds] : n \in 1..(Cardinality(CveIds) + 1)}

\* an entry of the result map
Hit(record) == [status |-> "hit", record |-> {record}]
Fetched(d) == [status |-> "fetched", record |-> {EpssResult(d)}]
Unavailable == [status |-> "unavailable", record |-> {}]
NoData == [status |-> "no data", record |-> {}]

\* the identifiers of a list
Range(seq) == {seq[k] : k \in DOMAIN seq}

\* variant: every miss is appended, a repeated identifier again
AppendMiss(misses, id) == Append(misses, id)

\* Dedup: a missed identifier joins the miss list unless it is in it
Dedup(misses, id) == IF id \in Range(misses) THEN misses ELSE Append(misses, id)

\* variant: a failed batch drops the hits and reports its identifiers as
\* having no data
FailedBatchNoData(result, batch) ==
  [id \in Range(batch) |-> NoData]

\* a failed remote call: the identifiers of its batch become unavailable, the
\* rest of the result map stays
FailedBatch(result, batch) ==
  [id \in DOMAIN result \cup Range(batch) |->
     IF id \in Range(batch) THEN Unavailable ELSE result[id]]

\* a remote call that succeeded: the identifiers of the batch the response
\* did not hold have no data
AbsentFromResponse(result, batch) ==
  [id \in DOMAIN result \cup Range(batch) |->
     IF id \in DOMAIN result THEN result[id] ELSE NoData]

\* an earlier run cached a record
Prefill ==
  /\ lookup.phase = "idle"
  /\ \E id \in CveIds, d \in EpssArgs : cache_epss_score(id, d)

PrefillDone ==
  /\ lookup.phase = "idle"
  /\ Return

\* the clock advances before the request (within the request it advances
\* inside the cache calls)
BeforeRequest ==
  /\ lookup.phase = "idle"
  /\ Tick

\* the caller issues lookup_epss(ids, max_age)
lookup_epss(ids, max_age) ==
  /\ lookup.phase = "idle"
  /\ ret.op = "idle"
  /\ lookup' = [phase |-> "partition", ids |-> ids, max_age |-> max_age,
                i |-> 1, misses |-> <<>>, next |-> 1, batch |-> <<>>,
                ok |-> TRUE, data |-> {}, failed |-> {},
                fetches |-> [id \in CveIds |-> 0],
                result |-> [id \in {} |-> NoData]]
  /\ UNCHANGED <<now, epss_cache, cisa_kev_cache, api_call_log, sqlite_sequence,
                 metadata, ret, calls, epss_put, callers, conn, block>>

\* Partition: the cache is queried for the next requested identifier
PartitionQuery ==
  /\ lookup.phase = "partition"
  /\ lookup.i <= Len(lookup.ids)
  /\ get_epss_score(lookup.ids[lookup.i], lookup.max_age)

\* Partition and Dedup: a record is a hit, None a miss
PartitionResult ==
  LET id == lookup.ids[lookup.i] IN
  /\ lookup.phase = "partition"
  /\ ret.op = "get_epss_score"
  /\ lookup' = IF ret.val = {}
               THEN [lookup EXCEPT !.i = @ + 1, !.misses = Dedup(@, id)]
               ELSE [lookup EXCEPT !.i = @ + 1,
                       !.result = [x \in DOMAIN @ \cup {id} |->
                                     IF x = id
                                     THEN Hit(CHOOSE r \in ret.val : TRUE)
                                     ELSE @[x]]]
  /\ ret' = Idle
  /\ UNCHANGED <<now, epss_cache, cisa_kev_cache, api_call_log, sqlite_sequence,
                 metadata, calls, epss_put, callers, conn, block>>

\* Batch: the next misses, at most MaxBatch of them; Combine when none is left
Batch ==
  /\ lookup.phase = "partition"
  /\ ret.op = "idle"
  /\ lookup.i > Len(lookup.ids)
  /\ lookup' =
       IF lookup.next > Len(lookup.misses)
       THEN [lookup EXCEPT !.phase = "combine"]
       ELSE LET last == IF lookup.next + MaxBatch - 1 < Len(lookup.misses)
                        THEN lookup.next + MaxBatch - 1 ELSE Len(lookup.misses)
            IN [lookup EXCEPT !.phase = "fetch", !.next = last + 1,
                              !.batch = SubSeq(lookup.misses, lookup.next, last)]
  /\ UNCHANGED <<now, epss_cache, cisa_kev_cache, api_call_log, sqlite_sequence,
                 metadata, ret, calls, epss_put, callers, conn, block>>

\* the record the EPSS source holds for an identifier
RemoteRecord(id) ==
  IF id = "CVE-1"
  THEN [epss_score |-> 1, percentile |-> 1, model_version |-> "v1", score_date |-> "d1"]
  ELSE [epss_score |-> 2, percentile |-> 2, model_version |-> "", score_date |-> ""]

\* the responses the Remote Client can give to a batch: the record of some of
\* its identifiers
Responses(batch) ==
  SUBSET {[id |-> id, d |-> RemoteRecord(id)] : id \in Range(batch)}

\* Fetch: one remote call for the batch; it fails or it answers (no remote
\* call is made that the bound of the call log would leave unrecorded)
Fetch ==
  /\ lookup.phase = "fetch"
  /\ Cardinality(api_call_log) < MaxLog
  /\ \E ok \in BOOLEAN, resp \in Responses(lookup.batch) :
       /\ ~ok => resp = {}
       /\ lookup' = [lookup EXCEPT
             !.phase = "audit", !.ok = ok, !.data = resp,
             !.failed = IF ok THEN @ ELSE @ \cup Range(lookup.batch),
             !.fetches = [id \in CveIds |->
                @[id] + Cardinality({k \in DOMAIN lookup.batch :
                                       lookup.batch[k] = id})]]
  /\ UNCHANGED <<now, epss_cache, cisa_kev_cache, api_call_log, sqlite_sequence,
                 metadata, ret, calls, epss_put, callers, conn, block>>

\* the audit entry of a remote call: not served from cache
AuditArgs(ok, batch) ==
  [api_type |-> "EPSS", endpoint |-> "epss-url", parameters |-> batch,
   status_code |-> IF ok THEN 200 ELSE 500, response_time |-> 1,
   cached |-> FALSE]

\* the call site records the remote call, whatever its outcome
Audit ==
  /\ lookup.phase = "audit"
  /\ log_api_call(AuditArgs(lookup.ok, lookup.batch))

AuditResult ==
  /\ lookup.phase = "audit"
  /\ ret.op = "log_api_call"
  /\ lookup' = [lookup EXCEPT !.phase = "merge"]
  /\ ret' = Idle
  /\ UNCHANGED <<now, epss_cache, cisa_kev_cache, api_call_log, sqlite_sequence,
                 metadata, calls, epss_put, callers, conn, block>>

\* Merge: a record of the response is upserted into the cache
MergePut ==
  /\ lookup.phase = "merge"
  /\ \E e \in lookup.data :
       /\ e.id \notin DOMAIN lookup.result
       /\ cache_epss_score(e.id, e.d)

\* Merge: the record upserted joins the result map
MergeResult ==
  /\ lookup.phase = "merge"
  /\ ret.op = "cache_epss_score"
  /\ \E e \in lookup.data :
       /\ e.id \notin DOMAIN lookup.result
       /\ \E r \in RowsOf(epss_cache, e.id) :
            /\ r.cached_at = IsoFormat(ret.at)
            /\ EpssFields(r) = e.d
       /\ lookup' = [lookup EXCEPT
             !.result = [x \in DOMAIN @ \cup {e.id} |->
                           IF x = e.id THEN Fetched(e.d) ELSE @[x]]]
  /\ ret' = Idle
  /\ UNCHANGED <<now, epss_cache, cisa_kev_cache, api_call_log, sqlite_sequence,
                 metadata, calls, epss_put, callers, conn, block>>

\* Merge ends: the identifiers of the batch without a record are marked, and
\* the next batch follows
MergeEnd ==
  /\ lookup.phase = "merge"
  /\ ret.op = "idle"
  /\ \A e \in lookup.data : e.id \in DOMAIN lookup.result
  /\ lookup' = [lookup EXCEPT
        !.phase = "partition",
        !.result = IF lookup.ok THEN AbsentFromResponse(@, lookup.batch)
                   ELSE FailedBatch(@, lookup.batch)]
  /\ UNCHANGED <<now, epss_cache, cisa_kev_cache, api_call_log, sqlite_sequence,
                 metadata, ret, calls, epss_put, callers, conn, block>>

\* Combine: the result map, hits and fetched records, goes to the caller
Combine ==
  /\ lookup.phase = "combine"
  /\ lookup' = [lookup EXCEPT !.phase = "done"]
  /\ UNCHANGED <<now, epss_cache, cisa_kev_cache, api_call_log, sqlite_sequence,
                 metadata, ret, calls, epss_put, callers, conn, block>>

LookupNext ==
  \/ Prefill
  \/ PrefillDone
  \/ BeforeRequest
  \/ \E ids \in Requests, a \in Ages : lookup_epss(ids, a)
  \/ PartitionQuery
  \/ PartitionResult
  \/ Batch
  \/ Fetch
  \/ Audit
  \/ AuditResult
  \/ MergePut
  \/ MergeResult
  \/ MergeEnd
  \/ Combine

LookupSpec == Init /\ [][LookupNext]_vars

\* ------------------------------------------------------- scoped release
\* bool(v): None is false, a sqlite3.Connection object is true, open or closed
Truthy(v) == v # "None"

\* sqlite3.Connection.close(): closes; a no-op on a closed connection
ConnectionClose(c) == [conn |-> "closed", error |-> "none"]

\* self.conn after close(), lines 243-246: self.conn is kept, never set to None
Closed(c) == IF Truthy(c) THEN ConnectionClose(c) ELSE [conn |-> c, error |-> "none"]

\* close(), called by the user before, inside or after the with-block
close ==
  /\ ret.op = "idle"
  /\ block.pc \in {"before", "inside", "after"}
  /\ conn' = Closed(conn).conn
  /\ ret' = IF Closed(conn).error = "none"
            THEN Returned("close", now, "None")
            ELSE Raised("close", now)
  /\ block' = IF block.pc = "inside" /\ Closed(conn).error # "none"
              THEN [block EXCEPT !.pc = "raised", !.exc = Closed(conn).error]
              ELSE block
  /\ UNCHANGED <<now, epss_cache, cisa_kev_cache, api_call_log, sqlite_sequence,
                 metadata, calls, epss_put, callers, lookup>>

\* __enter__, lines 248-250: returns self
__enter__ ==
  /\ ret.op = "idle"
  /\ block.pc = "before"
  /\ block' = [block EXCEPT !.pc = "inside"]
  /\ UNCHANGED <<now, epss_cache, cisa_kev_cache, api_call_log, sqlite_sequence,
                 metadata, ret, calls, epss_put, callers, lookup, conn>>

\* cache_epss_score on the open connection, before, inside or after the block
ScopedPut ==
  /\ block.pc \in {"before", "inside", "after"}
  /\ conn = "open"
  /\ \E id \in CveIds, d \in EpssArgs : cache_epss_score(id, d)

\* get_epss_score on the open connection
ScopedGet ==
  /\ block.pc \in {"before", "inside", "after"}
  /\ conn = "open"
  /\ \E id \in CveIds, a \in Ages : get_epss_score(id, a)

ScopedTick == block.pc \in {"before", "inside", "after"} /\ Tick

\* the caller takes the value a call returned, or catches what a call
\* outside the block raised
ScopedReturn == block.pc \in {"before", "inside", "after"} /\ Return

\* a cache call on the closed connection: cursor.execute raises
\* sqlite3.ProgrammingError; inside the block the exception leaves the body
call_on_closed ==
  /\ ret.op = "idle"
  /\ block.pc \in {"before", "inside", "after"}
  /\ conn = "closed"
  /\ ret' = Raised("get_epss_score", now)
  /\ block' = IF block.pc = "inside"
              THEN [block EXCEPT !.pc = "raised", !.exc = "sqlite3.Error"]
              ELSE block
  /\ UNCHANGED <<now, epss_cache, cisa_kev_cache, api_call_log, sqlite_sequence,
                 metadata, calls, epss_put, callers, lookup, conn>>

\* the body of the with-block raises an exception of its own
raise_in_block ==
  /\ ret.op = "idle"
  /\ block.pc = "inside"
  /\ block' = [block EXCEPT !.pc = "raised", !.exc = "ValueError"]
  /\ UNCHANGED <<now, epss_cache, cisa_kev_cache, api_call_log, sqlite_sequence,
                 metadata, ret, calls, epss_put, callers, lookup, conn>>

\* the body of the with-block runs to its end
end_of_block ==
  /\ ret.op = "idle"
  /\ block.pc = "inside"
  /\ block' = [block EXCEPT !.pc = "ended"]
  /\ UNCHANGED <<now, epss_cache, cisa_kev_cache, api_call_log, sqlite_sequence,
                 metadata, ret, calls, epss_put, callers, lookup, conn>>

\* variant: the connection is closed only when the body raised nothing
exit_on_success(exc) ==
  /\ block.pc \in {"raised", "ended"}
  /\ exc = block.exc
  /\ conn' = IF exc = "none" THEN Closed(conn).conn ELSE conn
  /\ ret' = Returned("__exit__", now, "None")
  /\ block' = [block EXCEPT !.pc = "exited"]
  /\ UNCHANGED <<now, epss_cache, cisa_kev_cache, api_call_log, sqlite_sequence,
                 metadata, calls, epss_put, callers, lookup>>

\* __exit__(exc_type, exc_val, exc_tb), lines 252-254: self.close(); an
\* exception of close() leaves __exit__, otherwise __exit__ returns None
__exit__(exc) ==
  /\ block.pc \in {"raised", "ended"}
  /\ exc = block.exc
  /\ conn' = Closed(conn).conn
  /\ ret' = IF Closed(conn).error = "none"
            THEN Returned("__exit__", now, "None")
            ELSE Raised("__exit__", now)
  /\ block' = [block EXCEPT !.pc = "exited"]
  /\ UNCHANGED <<now, epss_cache, cisa_kev_cache, api_call_log, sqlite_sequence,
                 metadata, calls, epss_put, callers, lookup>>

\* the with statement after __exit__: the exception of the body is raised
\* again unless __exit__ returned a true value; an exception of __exit__
\* replaces it
end_of_with ==
  /\ block.pc = "exited"
  /\ block' = [block EXCEPT
       !.pc = "after",
       !.propagated = IF ret.op = "sqlite3.Error" THEN "sqlite3.Error"
                      ELSE IF block.exc # "none" /\ ~Truthy(ret.val) THEN block.exc
                      ELSE "none"]
  /\ ret' = Idle
  /\ UNCHANGED <<now, epss_cache, cisa_kev_cache, api_call_log, sqlite_sequence,
                 metadata, calls, epss_put, callers, lookup, conn>>

\* one instance used in one with-block
ScopedNext ==
  \/ ScopedTick
  \/ ScopedReturn
  \/ ScopedPut
  \/ ScopedGet
  \/ close
  \/ __enter__
  \/ call_on_closed
  \/ raise_in_block
  \/ end_of_block
  \/ \E exc \in {"none", "ValueError", "sqlite3.Error"} : __exit__(exc)
  \/ end_of_with

ScopedSpec == Init /\ [][ScopedNext]_vars

\* ------------------------------------------------------------- properties
\* age of a cache row at clock value t, from its cached_at
Age(r, t) == t - FromIsoFormat(r.cached_at)

\* the step is a call of the operation named
IsGetEpss == ret'.op = "get_epss_score"
IsGetKev == ret'.op = "is_in_cisa_kev"
IsListKev == ret'.op = "get_all_cisa_kev_cves"
IsPutEpss == ret'.op = "cache_epss_score"
IsPutKev == ret'.op = "cache_cisa_kev"
IsLogCall == ret'.op = "log_api_call"
IsStats == ret'.op = "get_cache_stats"
IsSweep == ret'.op = "clear_expired_cache"

\* C1: get_epss_score(id, A) returns a record iff an entry for id exists and
\* now - cached_at <= A days, and is_in_cisa_kev(id, A) returns True iff an
\* entry for id exists and now - cached_at <= A days (both inclusive at the
\* boundary); an absent and an expired identifier give the same miss (None,
\* False).
C1_Freshness ==
  [][ /\ IsGetEpss => \A id \in CveIds, a \in Ages :
           get_epss_score(id, a) =>
             (ret'.val # {} <=>
                \E r \in epss_cache : r.cve_id = id /\ Age(r, now) <= a * TicksPerDay)
      /\ IsGetKev => \A id \in CveIds, a \in Ages :
           is_in_cisa_kev(id, a) =>
             (ret'.val = TRUE <=>
                \E r \in cisa_kev_cache : r.cve_id = id /\ Age(r, now) <= a * TicksPerDay)
    ]_vars

\* a get_epss_score hit on an entry exactly one day old
C1_Witness ==
  /\ ret.op = "get_epss_score"
  /\ \E r \in epss_cache :
       /\ Age(r, ret.at) = TicksPerDay
       /\ r.last_accessed = IsoFormat(now)
       /\ ret.val = {EpssResult(r)}

\* the identifiers is_in_cisa_kev reports as members at clock value t
KevMembers(t, max_age_days) ==
  {id \in CveIds : \E r \in RowsOf(cisa_kev_cache, id) : ~KevExpired(r, t, max_age_days)}

\* C2: get_all_cisa_kev_cves(A) returns exactly the identifiers for which
\* is_in_cisa_kev(id, A) at the same instant returns True, an entry of age
\* exactly A included.
C2_ListMatchesMembership ==
  [][ IsListKev => \A a \in Ages :
        get_all_cisa_kev_cves(a) => ret'.val = KevMembers(now, a) ]_vars

\* C3: an entry whose age now - cached_at exceeds the max-age of a read is
\* not returned as fresh, whatever earlier reads did to its last_accessed.
C3_StaleNeverFresh ==
  [][ /\ IsGetEpss => \A id \in CveIds, a \in Ages :
           (/\ get_epss_score(id, a)
            /\ \A r \in RowsOf(epss_cache, id) : Age(r, now) > a * TicksPerDay)
           => ret'.val = {}
      /\ IsGetKev => \A id \in CveIds, a \in Ages :
           (/\ is_in_cisa_kev(id, a)
            /\ \A r \in RowsOf(cisa_kev_cache, id) : Age(r, now) > a * TicksPerDay)
           => ret'.val = FALSE
    ]_vars

\* is_in_cisa_kev misses while every identifier has an entry older than a day
\* whose last_accessed an earlier hit moved to less than a day ago
C3_Witness ==
  /\ ret.op = "is_in_cisa_kev"
  /\ ret.val = FALSE
  /\ \A id \in CveIds : \E r \in RowsOf(cisa_kev_cache, id) :
       /\ Age(r, ret.at) > TicksPerDay
       /\ r.last_accessed # r.cached_at
       /\ ret.at - FromIsoFormat(r.last_accessed) < TicksPerDay

\* the rows of a table whose primary key is not id
OtherRows(table, id) == {r \in table : r.cve_id # id}

\* C4: while the latest cache_epss_score for id is within A days,
\* get_epss_score(id, A) returns exactly the four fields of that call, none
\* carried over from an earlier call; once more than A days have passed since
\* it, the same call returns None.
C4_RoundTrip ==
  [][ IsGetEpss => \A id \in CveIds, a \in Ages :
        get_epss_score(id, a) =>
          \A p \in epss_put[id] :
            ret'.val = IF now - p.at <= a * TicksPerDay
                       THEN {[epss |-> p.args.epss_score,
                              percentile |-> p.args.percentile,
                              model_version |-> p.args.model_version,
                              score_date |-> p.args.score_date]}
                       ELSE {} ]_vars

\* get_epss_score returns the fields of the latest put, made after time 0,
\* exactly one day after it
C4_Witness ==
  /\ ret.op = "get_epss_score"
  /\ \E id \in CveIds : \E p \in epss_put[id] :
       /\ ret.val = {EpssResult([cve_id |-> id] @@ p.args)}
       /\ p.args.model_version # ""
       /\ p.at > 0
       /\ ret.at - p.at = TicksPerDay
       /\ Cardinality(epss_cache) = 1

\* C5: a cache_epss_score (cache_cisa_kev) call on an identifier whose entry
\* already holds the same field values leaves exactly one entry for it, with
\* these field values, and changes nothing else in the store; no table ever
\* holds two entries for one identifier.
C5_IdempotentUpsert ==
  /\ [](\A id \in CveIds : /\ Cardinality(RowsOf(epss_cache, id)) <= 1
                           /\ Cardinality(RowsOf(cisa_kev_cache, id)) <= 1)
  /\ [][ /\ IsPutEpss => \A id \in CveIds, d \in EpssArgs :
              (/\ cache_epss_score(id, d)
               /\ \E r \in RowsOf(epss_cache, id) : EpssFields(r) = d)
              => /\ \E r \in epss_cache' :
                      RowsOf(epss_cache', id) = {r} /\ EpssFields(r) = d
                 /\ OtherRows(epss_cache', id) = OtherRows(epss_cache, id)
                 /\ UNCHANGED <<cisa_kev_cache, api_call_log, metadata>>
         /\ IsPutKev => \A id \in CveIds, d \in KevArgs :
              (/\ cache_cisa_kev(id, d)
               /\ \E r \in RowsOf(cisa_kev_cache, id) : KevFields(r) = d)
              => /\ \E r \in cisa_kev_cache' :
                      RowsOf(cisa_kev_cache', id) = {r} /\ KevFields(r) = d
                 /\ OtherRows(cisa_kev_cache', id) = OtherRows(cisa_kev_cache, id)
                 /\ UNCHANGED <<epss_cache, api_call_log, metadata>>
       ]_vars

\* a later cache_cisa_kev displaced an entry with the field values it stores
C5_Witness ==
  /\ ret.op = "cache_cisa_kev"
  /\ now > 0
  /\ \E r \in cisa_kev_cache :
       /\ cisa_kev_cache = {r}
       /\ ret.val = {KevFields(r)}
       /\ r.cached_at = IsoFormat(now)

\* C6: a hit of get_epss_score or is_in_cisa_kev sets the entry's
\* last_accessed to the current time and changes nothing else: not its
\* cached_at or data, no other entry, not the call log or the metadata; a miss
\* changes no stored state.
C6_ReadTouchesOnlyLastAccessed ==
  [][ /\ IsGetEpss => \A id \in CveIds, a \in Ages :
           get_epss_score(id, a) =>
             /\ epss_cache' =
                  IF ret'.val = {} THEN epss_cache
                  ELSE {IF r.cve_id = id
                        THEN [r EXCEPT !.last_accessed = IsoFormat(now')]
                        ELSE r : r \in epss_cache}
             /\ UNCHANGED <<cisa_kev_cache, api_call_log, metadata>>
      /\ IsGetKev => \A id \in CveIds, a \in Ages :
           is_in_cisa_kev(id, a) =>
             /\ cisa_kev_cache' =
                  IF ret'.val = FALSE THEN cisa_kev_cache
                  ELSE {IF r.cve_id = id
                        THEN [r EXCEPT !.last_accessed = IsoFormat(now')]
                        ELSE r : r \in cisa_kev_cache}
             /\ UNCHANGED <<epss_cache, api_call_log, metadata>>
    ]_vars

\* a hit moved last_accessed of one of two EPSS entries past its cached_at
C6_Witness ==
  /\ ret.op = "get_epss_score"
  /\ ret.val # {}
  /\ Cardinality(epss_cache) = 2
  /\ \E r \in epss_cache :
       /\ r.last_accessed = IsoFormat(now)
       /\ r.last_accessed # r.cached_at
       /\ ret.val = {EpssResult(r)}

\* C7: get_cache_stats leaves every EPSS entry, every KEV entry, the call log
\* and the metadata as they were.
C7_StatsReadOnly ==
  [][ IsStats => UNCHANGED <<epss_cache, cisa_kev_cache, api_call_log,
                             sqlite_sequence, metadata>> ]_vars

\* statistics taken over a cached entry last accessed before now and a call
C7_Witness ==
  /\ ret.op = "get_cache_stats"
  /\ ret.val.total_api_calls = 1
  /\ ret.val.epss_cached_entries + ret.val.cisa_kev_cached_entries = 1
  /\ \E r \in epss_cache \cup cisa_kev_cache : r.last_accessed # IsoFormat(now)

\* C8: clear_expired_cache(A, B) removes exactly the EPSS entries older than A
\* days and the KEV entries older than B days (each age taken when the
\* family's cutoff is computed), keeps the others, and returns the number of
\* entries removed from each table.
C8_Sweep ==
  [][ IsSweep => \A a \in Ages, b \in Ages :
        \/ /\ epss_cache' = {r \in epss_cache : Age(r, now) <= a * TicksPerDay}
           /\ cisa_kev_cache' =
                {r \in cisa_kev_cache : Age(r, now') <= b * TicksPerDay}
           /\ ret'.val.epss_deleted =
                Cardinality(epss_cache) - Cardinality(epss_cache')
           /\ ret'.val.kev_deleted =
                Cardinality(cisa_kev_cache) - Cardinality(cisa_kev_cache')
        \/ ~clear_expired_cache(a, b)
    ]_vars

\* a sweep removed two EPSS entries and left none
C8_Witness ==
  /\ ret.op = "clear_expired_cache"
  /\ ret.val.epss_deleted = 2
  /\ epss_cache = {}

\* C9: log_api_call adds exactly one entry, with an id above every existing
\* one; no operation changes or removes an entry of the call log; the log has
\* as many entries as there were log_api_call invocations.
C9_AuditAppendOnly ==
  /\ [](Cardinality(api_call_log) = calls)
  /\ [][ /\ \A e \in api_call_log : e \in api_call_log'
         /\ IsLogCall =>
              \E e \in api_call_log' :
                /\ e \notin api_call_log
                /\ api_call_log' = api_call_log \cup {e}
                /\ \A x \in api_call_log : x.id < e.id
         /\ ~IsLogCall => api_call_log' = api_call_log
       ]_vars

\* a second call of the same api_type was logged
C9_Witness ==
  /\ ret.op = "log_api_call"
  /\ calls = 2
  /\ \E e1, e2 \in api_call_log :
       e1.id < e2.id /\ e1.api_type = e2.api_type /\ api_call_log = {e1, e2}

\* the count get_cache_stats returned for an api_type
RecentCount(stats, type) ==
  IF type \in DOMAIN stats.recent_calls_by_type
  THEN stats.recent_calls_by_type[type] ELSE 0

\* the entries of an api_type logged less than (at most) d ticks before t
LoggedWithin(type, t, d) ==
  {e \in api_call_log : e.api_type = type /\ t - FromIsoFormat(e.timestamp) < d}

\* C10: recent_calls_by_type counts, per api_type, the entries whose timestamp
\* lies in the 24 hours before the get_cache_stats call: every entry logged
\* less than 24 hours before is counted, none logged more than 24 hours before.
C10_RecentCallsWindow ==
  [][ IsStats => \A type \in {c.api_type : c \in CallArgs} :
        /\ RecentCount(ret'.val, type) >=
             Cardinality(LoggedWithin(type, now, TicksPerDay))
        /\ RecentCount(ret'.val, type) <=
             Cardinality(LoggedWithin(type, now, TicksPerDay + 1))
    ]_vars

\* C11: is_in_cisa_kev on an identifier that was never inserted gives a result
\* that differs from the answer "not in the known-exploited list" (False): the
\* lookup tells "unknown" from "not exploited".  (At clock value 0 no entry
\* can have been removed, so an identifier without an entry was never
\* inserted.)
C11_UnknownIsNotAbsent ==
  [][ IsGetKev => \A id \in CveIds, a \in Ages :
        (/\ is_in_cisa_kev(id, a)
         /\ now = 0
         /\ RowsOf(cisa_kev_cache, id) = {})
        => ret'.val # FALSE ]_vars

\* C12: under one caller and a clock that never goes back, every stored EPSS
\* entry and every stored KEV entry has cached_at <= last_accessed.
C12_CachedBeforeAccessed ==
  /\ \A r \in epss_cache :
       FromIsoFormat(r.cached_at) <= FromIsoFormat(r.last_accessed)
  /\ \A r \in cisa_kev_cache :
       FromIsoFormat(r.cached_at) <= FromIsoFormat(r.last_accessed)

\* a hit of is_in_cisa_kev left an entry accessed later than it was cached
C12_Witness ==
  /\ ret.op = "is_in_cisa_kev"
  /\ ret.val = TRUE
  /\ \E r \in cisa_kev_cache :
       /\ r.last_accessed = IsoFormat(now)
       /\ FromIsoFormat(r.cached_at) < FromIsoFormat(r.last_accessed)

\* a cache row as the put that stored it wrote it
AsWritten(r) == [r EXCEPT !.last_accessed = r.cached_at]

\* caller p executes the statement of the call named
Executes(p, call) == callers[p].pc = call /\ callers'[p].pc = "idle"

\* C13: with two concurrent writers on one identifier, the statement of a
\* cache_epss_score (cache_cisa_kev) call leaves for the identifier exactly
\* the entry made of that call's own field values and clock reading, and no
\* other step changes the data or cached_at of an entry: an entry never mixes
\* the fields of two calls.
C13_AtomicUpsert ==
  [][ /\ \A p \in Callers :
           /\ Executes(p, "cache_epss_score") =>
                RowsOf(epss_cache', callers[p].id) =
                  {EpssRow(callers[p].id, callers[p].args, IsoFormat(callers[p].t))}
           /\ Executes(p, "cache_cisa_kev") =>
                RowsOf(cisa_kev_cache', callers[p].id) =
                  {KevRow(callers[p].id, callers[p].args, IsoFormat(callers[p].t))}
      /\ (\A p \in Callers : ~Executes(p, "cache_epss_score")) =>
           {AsWritten(r) : r \in epss_cache'} = {AsWritten(r) : r \in epss_cache}
      /\ (\A p \in Callers : ~Executes(p, "cache_cisa_kev")) =>
           {AsWritten(r) : r \in cisa_kev_cache'} =
             {AsWritten(r) : r \in cisa_kev_cache}
    ]_vars

\* two overlapping writers with different data: one has read the clock and
\* not yet executed, the other read the clock later and has stored its entry
C13_Witness ==
  \E p \in Callers :
    /\ callers[p].pc = "cache_epss_score"
    /\ \E r \in RowsOf(epss_cache, callers[p].id) :
         /\ EpssFields(r) # callers[p].args
         /\ FromIsoFormat(r.cached_at) > callers[p].t
         /\ r = EpssRow(r.cve_id, EpssFields(r), r.cached_at)

\* the step is a call that ended with the store's exception
IsStoreError == ret'.op = "sqlite3.Error"

\* C14: a call the store fails in ends with an error, not a hit or a miss,
\* and leaves every stored record as it was before the call: a
\* clear_expired_cache that fails part-way has removed no EPSS and no KEV
\* entry for the calls that follow.
C14_FailedCallChangesNothing ==
  [][ IsStoreError =>
        UNCHANGED <<epss_cache, cisa_kev_cache, api_call_log, metadata>> ]_vars

\* how often an identifier occurs in a list
Occurrences(seq, id) == Cardinality({k \in DOMAIN seq : seq[k] = id})

\* C15: whatever the requested list, repeated identifiers included, the miss
\* list of a lookup holds no identifier twice and no identifier is handed to
\* the Remote Client more than once.
C15_BatchDedup ==
  lookup.phase # "idle" =>
    /\ \A id \in CveIds : Occurrences(lookup.misses, id) <= 1
    /\ \A id \in CveIds : lookup.fetches[id] <= 1

\* a lookup is done whose list named a missed identifier twice and another
\* once, each fetched once
C15_Witness ==
  /\ lookup.phase = "done"
  /\ \E x, y \in CveIds :
       /\ x # y
       /\ Occurrences(lookup.ids, x) = 2
       /\ Occurrences(lookup.ids, y) = 1
       /\ lookup.fetches[x] = 1
       /\ lookup.fetches[y] = 1

\* C16: a lookup whose remote call failed still ends with a complete result
\* map: every requested identifier that had a fresh entry carries the cached
\* record, and exactly the identifiers of failed remote calls are marked
\* unavailable, which is not the mark of "no data".
C16_PartialFailure ==
  lookup.phase = "done" =>
    /\ DOMAIN lookup.result = Range(lookup.ids)
    /\ \A id \in Range(lookup.ids) :
         /\ lookup.fetches[id] = 0 =>
              /\ lookup.result[id].status = "hit"
              /\ \E r \in RowsOf(epss_cache, id) :
                   lookup.result[id].record =
                     {[epss |-> r.epss_score, percentile |-> r.percentile,
                       model_version |-> r.model_version,
                       score_date |-> r.score_date]}
         /\ id \in lookup.failed <=> lookup.result[id].status = "unavailable"
         /\ lookup.result[id].status = "unavailable" =>
              lookup.result[id] # NoData

\* a lookup is done with a cached hit for one identifier and another
\* identifier unavailable after a failed remote call
C16_Witness ==
  /\ lookup.phase = "done"
  /\ lookup.failed # {}
  /\ \E x, y \in Range(lookup.ids) :
       /\ lookup.result[x].status = "hit"
       /\ lookup.result[y].status = "unavailable"

\* C17: with two concurrent callers, whose calls read the clock and execute
\* their statement as separate steps, no stored EPSS or KEV entry is ever
\* accessed earlier than it was cached, however a hit of get_epss_score
\* (is_in_cisa_kev) interleaves with a cache_epss_score (cache_cisa_kev) on
\* the same identifier.
C17_ConcurrentCachedBeforeAccessed ==
  \A r \in epss_cache \cup cisa_kev_cache :
    ~(FromIsoFormat(r.last_accessed) < FromIsoFormat(r.cached_at))

\* C18: clear_expired_cache(A, B) deletes no entry that get_epss_score(id, A)
\* or is_in_cisa_kev(id, B), evaluated at the instant the family's cutoff is
\* computed, would return as fresh (an entry exactly A or B days old stays),
\* and every entry it leaves is fresh under its family's age at that instant.
C18_SweepAgreesWithReads ==
  [][ IsSweep => \A a \in Ages, b \in Ages :
        \/ /\ \A r \in epss_cache \ epss_cache' : EpssExpired(r, now, a)
           /\ \A r \in epss_cache' : r \in epss_cache /\ ~EpssExpired(r, now, a)
           /\ \A r \in cisa_kev_cache \ cisa_kev_cache' : KevExpired(r, now', b)
           /\ \A r \in cisa_kev_cache' :
                r \in cisa_kev_cache /\ ~KevExpired(r, now', b)
        \/ ~clear_expired_cache(a, b)
    ]_vars

\* a sweep deleted an entry and kept an EPSS entry exactly one day old
C18_Witness ==
  /\ ret.op = "clear_expired_cache"
  /\ ret.val.epss_deleted + ret.val.kev_deleted >= 1
  /\ \E r \in epss_cache : Age(r, ret.at) = TicksPerDay

\* C19: cache_epss_score and get_epss_score change no KEV entry;
\* cache_cisa_kev, is_in_cisa_kev and get_all_cisa_kev_cves change no EPSS
\* entry; in clear_expired_cache(A, B) the EPSS entries deleted depend on A
\* alone and the KEV entries deleted on B alone, and no entry of the call log
\* is removed or changed; no operation changes the metadata.
C19_FamiliesIndependent ==
  [][ /\ metadata' = metadata
      /\ (IsPutEpss \/ IsGetEpss) => cisa_kev_cache' = cisa_kev_cache
      /\ (IsPutKev \/ IsGetKev \/ IsListKev) => epss_cache' = epss_cache
      /\ IsSweep =>
           /\ api_call_log' = api_call_log
           /\ \A a \in Ages, b \in Ages :
                \/ /\ epss_cache \ epss_cache' =
                        {r \in epss_cache : Age(r, now) > a * TicksPerDay}
                   /\ cisa_kev_cache \ cisa_kev_cache' =
                        {r \in cisa_kev_cache : Age(r, now') > b * TicksPerDay}
                \/ ~clear_expired_cache(a, b)
    ]_vars

\* a sweep deleted a KEV entry and kept an EPSS entry that was at least as old
C19_Witness ==
  /\ ret.op = "clear_expired_cache"
  /\ ret.val.kev_deleted = 1
  /\ ret.val.epss_deleted = 0
  /\ \E r \in epss_cache : Age(r, now) = MaxAge * TicksPerDay

\* the entries of the call log recorded by a log_api_call with arguments c
LoggedFrom(c) ==
  {e \in api_call_log : /\ e.api_type = c.api_type
                        /\ e.endpoint = c.endpoint
                        /\ e.status_code = c.status_code
                        /\ e.response_time = c.response_time}

\* C20: get_cache_stats reports the number of stored EPSS entries and of
\* stored KEV entries, stale ones included, the number of entries of the call
\* log (one per log_api_call made) and, as cached calls, the number of
\* entries logged with cached true; cached calls never exceed total calls.
C20_StatsCounts ==
  [][ IsStats =>
        /\ ret'.val.epss_cached_entries = Cardinality(epss_cache)
        /\ ret'.val.cisa_kev_cached_entries = Cardinality(cisa_kev_cache)
        /\ ret'.val.total_api_calls = Cardinality(api_call_log)
        /\ ret'.val.total_api_calls = calls
        /\ ret'.val.cached_api_calls =
             Cardinality(UNION {LoggedFrom(c) : c \in {x \in CallArgs : x.cached}})
        /\ ret'.val.cached_api_calls <= ret'.val.total_api_calls
    ]_vars

\* statistics over a KEV entry older than a day and one call served from cache
C20_Witness ==
  /\ ret.op = "get_cache_stats"
  /\ ret.val.cisa_kev_cached_entries = 1
  /\ \E r \in cisa_kev_cache : Age(r, now) > TicksPerDay
  /\ ret.val.total_api_calls = 1
  /\ ret.val.cached_api_calls = 1

\* the step is a call of close(), returning or raising
IsClose ==
  \/ ret'.op = "close"
  \/ ret'.op = "sqlite3.Error" /\ ret'.val = "close"

\* C21: once the with-block has been left, by the end of its body or by an
\* exception, the connection is closed; the exception the body raised is the
\* one the with statement raises, and none is raised when the body raised
\* none; close() on an instance already closed returns without an exception.
C21_ScopedRelease ==
  [][ /\ block'.pc \in {"exited", "after"} => conn' = "closed"
      /\ block'.pc = "after" => block'.propagated = block'.exc
      /\ (conn = "closed" /\ IsClose) => ret'.op = "close"
    ]_vars

\* the body raised, the block was left with that exception and the
\* connection closed, and close() was then called once more
C21_Witness ==
  /\ block.pc = "after"
  /\ block.exc = "ValueError"
  /\ block.propagated = "ValueError"
  /\ conn = "closed"
  /\ ret.op = "close"
====
